---- MODULE Spec2Model ----
(***************************************************************************)
(* Model of the write-side archive handle of libarchive/archive_write.c:   *)
(* the handle's state machine (archive_write_open, _archive_write_header,  *)
(* _archive_write_data, _archive_write_finish_entry, _archive_write_close, *)
(* _archive_write_free), the skip-file guard and the filter chain.         *)
(*                                                                         *)
(* The format backend, the filters and the client callbacks are external:  *)
(* every hook the handle invokes returns a status the model draws from     *)
(* Status.  Each public call is one action; the call's outcome (status,    *)
(* the hooks it invoked in order, the assignments it made to               *)
(* a->archive.state) is recorded in the variable last.                     *)
(***************************************************************************)
EXTENDS Integers, Sequences, FiniteSets

\* ---------------------------------------------------------------- bounds
\* Largest number of filters configured before open.
MaxFilters == 2
\* Device and inode numbers of entries and of the skip file are 0..MaxDev, 0..MaxIno.
MaxDev == 1
MaxIno == 1
\* Largest buffer length handed to write_data.
MaxLen == 2
\* Hook-invocation counters saturate here.
MaxCount == 3
\* Tokens in an options string.
MaxOpts == 2
\* Largest buffer handed to archive_write_client_write.
MaxBuf == 3
\* Calls of the client's writer within one archive_write_client_write.
MaxCalls == 4
\* Width of size_t, scaled down so that the buffer lengths tried come near
\* its largest value.
SizeBits == 3

\* ------------------------------------------------------- status codes
\* archive.h is not part of the sources at hand; the codes keep the order of
\* the specification's status taxonomy (OK > Warn > Retry > Failed > Fatal,
\* the lower value the more severe).
ARCHIVE_OK == 0
ARCHIVE_WARN == -20
ARCHIVE_RETRY == -22
ARCHIVE_FAILED == -25
ARCHIVE_FATAL == -30

Status == {ARCHIVE_OK, ARCHIVE_WARN, ARCHIVE_RETRY, ARCHIVE_FAILED, ARCHIVE_FATAL}
NonFatal == Status \ {ARCHIVE_FATAL}
\* The statuses the hooks return during free.
TeardownStatus == {ARCHIVE_OK, ARCHIVE_WARN, ARCHIVE_FATAL}

\* The backends tried: one binding only the mandatory slots (write_header,
\* write_data, finish_entry), one binding init, finish, destroy and the
\* options handler too.
FormatShapes == {{}, {"init", "finish", "destroy", "options"}}

\* ------------------------------------------------------ handle states
ARCHIVE_STATE_NEW == "NEW"
ARCHIVE_STATE_HEADER == "HEADER"
ARCHIVE_STATE_DATA == "DATA"
ARCHIVE_STATE_CLOSED == "CLOSED"
ARCHIVE_STATE_FATAL == "FATAL"

ARCHIVE_STATE_ANY == {ARCHIVE_STATE_NEW, ARCHIVE_STATE_HEADER, ARCHIVE_STATE_DATA,
                      ARCHIVE_STATE_CLOSED, ARCHIVE_STATE_FATAL}

\* a->archive.magic of a live handle, and of a freed one.
ARCHIVE_WRITE_MAGIC == "ARCHIVE_WRITE_MAGIC"
MagicFreed == "0"

VARIABLES
    magic,          \* a->archive.magic
    state,          \* a->archive.state
    skip_file_dev,  \* a->skip_file_dev
    skip_file_ino,  \* a->skip_file_ino
    format,         \* the optional backend slots that are bound (non-NULL)
    filters,        \* the chain filter_first .. filter_last, head first
    last,           \* outcome of the latest public call
    n_format_finish,    \* invocations of a->format_finish so far
    n_filter_close,     \* invocations of the head filter's close hook so far
    prev_header,    \* a write_header ran and no explicit finish_entry since
    any_header,     \* a write_header ran since open
    n_filter_open,  \* invocations of the head filter's open hook so far
    open_failed,    \* archive_write_open returned a status other than OK
    cw              \* archive_write_client_write in progress: its locals

vars == <<magic, state, skip_file_dev, skip_file_ino, format, filters, last,
          n_format_finish, n_filter_close, prev_header, any_header,
          n_filter_open, open_failed, cw>>

Min(x, y) == IF x < y THEN x ELSE y

\* One hook invocation and the status it returned.
Hook(name, r) == [hook |-> name, node |-> 0, r |-> r]
\* The same for a hook of the chain's i-th node.
FilterHook(name, i, r) == [hook |-> name, node |-> i, r |-> r]
\* One assignment to a->archive.state, with the function that made it.
Trans(fn, from, to) == [fn |-> fn, from |-> from, to |-> to]

\* __archive_check_magic (archive_check_magic.c, not among the sources): the
\* call goes on only when the handle's state is one of the allowed ones.
__archive_check_magic(st, allowed) == st \in allowed

\* The outcome of a call that __archive_check_magic rejects: InvalidState,
\* nothing invoked, nothing assigned.
InvalidState(st) ==
    [state |-> st, ret |-> ARCHIVE_FATAL, err |-> "InvalidState",
     hooks |-> <<>>, trans |-> <<>>]

Outcome(st, ret, hooks, trans) ==
    [state |-> st, ret |-> ret, err |-> "", hooks |-> hooks, trans |-> trans]

\* ------------------------------------------------------ filter chain
\* A chain node: what it is and which of its hook slots are set (non-NULL).
\* __archive_write_allocate_filter callocs the node, so every slot starts
\* NULL; the filter's own set-up code (external) then fills slots in.
FilterShapes == {{"open", "write", "close", "free", "options"}, {"write"}}
Node(name, hooks) == [name |-> name, hooks |-> hooks]


\* __archive_write_allocate_filter setting filter_first to the new node
\* whether or not the chain is empty: the nodes allocated before are lost.
__archive_write_allocate_filter_resets_head(chain, node) == <<node>>

\* __archive_write_allocate_filter: append a node at filter_last.
__archive_write_allocate_filter(chain, node) == Append(chain, node)

\* The node archive_write_open appends: open, write and close are set to the
\* archive_write_client_* adapters; free and options stay NULL.
client_filter == Node("client", {"open", "write", "close"})

\* archive_write_set_compression_none (another file of the library): leaves
\* the chain as it is, so that zero configured filters give a chain of one
\* node after open.
archive_write_set_compression_none(chain) == chain

\* __archive_write_open_filter(f): the hook's status r, OK without a hook.
__archive_write_open_filter(f, r) ==
    IF "open" \in f.hooks THEN Outcome("", r, <<FilterHook("filter_open", 1, r)>>, <<>>)
    ELSE Outcome("", ARCHIVE_OK, <<>>, <<>>)

\* __archive_write_close_filter(f): the hook's status r, OK without a hook.
__archive_write_close_filter(f, r) ==
    IF "close" \in f.hooks THEN Outcome("", r, <<FilterHook("filter_close", 1, r)>>, <<>>)
    ELSE Outcome("", ARCHIVE_OK, <<>>, <<>>)

\* ------------------------------------------------------- operations

\* _archive_write_finish_entry without its test of ARCHIVE_STATE_DATA: the
\* backend's finish-entry hook runs even when no entry is open.
_archive_write_finish_entry_no_data_test(st, fe) ==
    IF ~__archive_check_magic(st, {ARCHIVE_STATE_HEADER, ARCHIVE_STATE_DATA})
    THEN InvalidState(st)
    ELSE Outcome(ARCHIVE_STATE_HEADER, fe,
                 <<Hook("format_finish_entry", fe)>>,
                 <<Trans("finish_entry", st, ARCHIVE_STATE_HEADER)>>)

\* _archive_write_finish_entry moving to HEADER only when the hook returned
\* OK: a failed finish leaves the handle in DATA.
_archive_write_finish_entry_header_on_ok(st, fe) ==
    IF ~__archive_check_magic(st, {ARCHIVE_STATE_HEADER, ARCHIVE_STATE_DATA})
    THEN InvalidState(st)
    ELSE LET ret == IF st = ARCHIVE_STATE_DATA THEN fe ELSE ARCHIVE_OK
         IN  Outcome(IF ret = ARCHIVE_OK THEN ARCHIVE_STATE_HEADER ELSE st,
                     ret,
                     IF st = ARCHIVE_STATE_DATA
                         THEN <<Hook("format_finish_entry", fe)>> ELSE <<>>,
                     IF ret = ARCHIVE_OK
                         THEN <<Trans("finish_entry", st, ARCHIVE_STATE_HEADER)>>
                         ELSE <<>>)

\* _archive_write_finish_entry; fe is what a->format_finish_entry returns.
_archive_write_finish_entry(st, fe) ==
    IF ~__archive_check_magic(st, {ARCHIVE_STATE_HEADER, ARCHIVE_STATE_DATA})
    THEN InvalidState(st)
    ELSE Outcome(ARCHIVE_STATE_HEADER,
                 IF st = ARCHIVE_STATE_DATA THEN fe ELSE ARCHIVE_OK,
                 IF st = ARCHIVE_STATE_DATA
                     THEN <<Hook("format_finish_entry", fe)>> ELSE <<>>,
                 <<Trans("finish_entry", st, ARCHIVE_STATE_HEADER)>>)

\* The skip-file test of _archive_write_header.
SkipFileMatch(sdev, sino, dev, ino) ==
    sdev # 0 /\ dev = sdev /\ sino # 0 /\ ino = sino

\* _archive_write_header returning the write-header hook's status alone: the
\* status of the implicit finish step is dropped (ret = r2).
_archive_write_header_drops_finish(st, sdev, sino, dev, ino, fe, wh) ==
    IF ~__archive_check_magic(st, {ARCHIVE_STATE_DATA, ARCHIVE_STATE_HEADER})
    THEN InvalidState(st)
    ELSE LET f == _archive_write_finish_entry(st, fe)
             h == <<Hook("format_write_header", wh)>>
         IN  IF f.ret = ARCHIVE_FATAL
             THEN Outcome(ARCHIVE_STATE_FATAL, ARCHIVE_FATAL, f.hooks,
                          f.trans \o <<Trans("write_header", f.state,
                                             ARCHIVE_STATE_FATAL)>>)
             ELSE IF f.ret < ARCHIVE_OK /\ f.ret # ARCHIVE_WARN
             THEN Outcome(f.state, f.ret, f.hooks, f.trans)
             ELSE IF SkipFileMatch(sdev, sino, dev, ino)
             THEN Outcome(f.state, ARCHIVE_FAILED, f.hooks, f.trans)
             ELSE IF wh = ARCHIVE_FATAL
             THEN Outcome(ARCHIVE_STATE_FATAL, ARCHIVE_FATAL, f.hooks \o h,
                          f.trans \o <<Trans("write_header", f.state,
                                             ARCHIVE_STATE_FATAL)>>)
             ELSE Outcome(ARCHIVE_STATE_DATA, wh, f.hooks \o h,
                          f.trans \o <<Trans("write_header", f.state,
                                             ARCHIVE_STATE_DATA)>>)

\* _archive_write_header moving to DATA only when the write-header hook
\* returned OK or Warn: a Failed or Retry header leaves the handle in HEADER.
_archive_write_header_data_on_ok(st, sdev, sino, dev, ino, fe, wh) ==
    IF ~__archive_check_magic(st, {ARCHIVE_STATE_DATA, ARCHIVE_STATE_HEADER})
    THEN InvalidState(st)
    ELSE LET f == _archive_write_finish_entry(st, fe)
             h == <<Hook("format_write_header", wh)>>
         IN  IF f.ret = ARCHIVE_FATAL
             THEN Outcome(ARCHIVE_STATE_FATAL, ARCHIVE_FATAL, f.hooks,
                          f.trans \o <<Trans("write_header", f.state,
                                             ARCHIVE_STATE_FATAL)>>)
             ELSE IF f.ret < ARCHIVE_OK /\ f.ret # ARCHIVE_WARN
             THEN Outcome(f.state, f.ret, f.hooks, f.trans)
             ELSE IF SkipFileMatch(sdev, sino, dev, ino)
             THEN Outcome(f.state, ARCHIVE_FAILED, f.hooks, f.trans)
             ELSE IF wh = ARCHIVE_FATAL
             THEN Outcome(ARCHIVE_STATE_FATAL, ARCHIVE_FATAL, f.hooks \o h,
                          f.trans \o <<Trans("write_header", f.state,
                                             ARCHIVE_STATE_FATAL)>>)
             ELSE IF wh \in {ARCHIVE_OK, ARCHIVE_WARN}
             THEN Outcome(ARCHIVE_STATE_DATA, Min(wh, f.ret), f.hooks \o h,
                          f.trans \o <<Trans("write_header", f.state,
                                             ARCHIVE_STATE_DATA)>>)
             ELSE Outcome(f.state, Min(wh, f.ret), f.hooks \o h, f.trans)

\* _archive_write_header on an entry with device dev and inode ino; sdev and
\* sino are a->skip_file_dev and a->skip_file_ino, fe and wh what
\* a->format_finish_entry and a->format_write_header return.
_archive_write_header(st, sdev, sino, dev, ino, fe, wh) ==
    IF ~__archive_check_magic(st, {ARCHIVE_STATE_DATA, ARCHIVE_STATE_HEADER})
    THEN InvalidState(st)
    ELSE LET f == _archive_write_finish_entry(st, fe)
             h == <<Hook("format_write_header", wh)>>
         IN  IF f.ret = ARCHIVE_FATAL
             THEN Outcome(ARCHIVE_STATE_FATAL, ARCHIVE_FATAL, f.hooks,
                          f.trans \o <<Trans("write_header", f.state,
                                             ARCHIVE_STATE_FATAL)>>)
             ELSE IF f.ret < ARCHIVE_OK /\ f.ret # ARCHIVE_WARN
             THEN Outcome(f.state, f.ret, f.hooks, f.trans)
             ELSE IF SkipFileMatch(sdev, sino, dev, ino)
             THEN Outcome(f.state, ARCHIVE_FAILED, f.hooks, f.trans)
             ELSE IF wh = ARCHIVE_FATAL
             THEN Outcome(ARCHIVE_STATE_FATAL, ARCHIVE_FATAL, f.hooks \o h,
                          f.trans \o <<Trans("write_header", f.state,
                                             ARCHIVE_STATE_FATAL)>>)
             ELSE Outcome(ARCHIVE_STATE_DATA, Min(wh, f.ret), f.hooks \o h,
                          f.trans \o <<Trans("write_header", f.state,
                                             ARCHIVE_STATE_DATA)>>)

\* _archive_write_data; wd is what a->format_write_data returns (a byte
\* count or a negative status).
_archive_write_data(st, wd) ==
    IF ~__archive_check_magic(st, {ARCHIVE_STATE_DATA})
    THEN InvalidState(st)
    ELSE Outcome(st, wd, <<Hook("format_write_data", wd)>>, <<>>)


\* _archive_write_close without its early return on ARCHIVE_STATE_FATAL: a
\* close on a FATAL handle runs the three phases and ends CLOSED.
_archive_write_close_no_fatal_check(st, fmt, chain, fe, ff, fc) ==
    IF st \in {ARCHIVE_STATE_NEW, ARCHIVE_STATE_CLOSED}
    THEN Outcome(st, ARCHIVE_OK, <<>>, <<>>)
    ELSE LET r0 == IF st = ARCHIVE_STATE_DATA THEN fe ELSE ARCHIVE_OK
             h0 == IF st = ARCHIVE_STATE_DATA
                       THEN <<Hook("format_finish_entry", fe)>> ELSE <<>>
             r1 == IF "finish" \in fmt THEN Min(ff, r0) ELSE r0
             h1 == IF "finish" \in fmt
                       THEN <<Hook("format_finish", ff)>> ELSE <<>>
             c  == __archive_write_close_filter(Head(chain), fc)
         IN  Outcome(ARCHIVE_STATE_CLOSED, Min(c.ret, r1),
                     h0 \o h1 \o c.hooks,
                     <<Trans("close", st, ARCHIVE_STATE_CLOSED)>>)


\* _archive_write_close without its final assignment of ARCHIVE_STATE_CLOSED:
\* the handle stays in HEADER or DATA and a second close runs the hooks again.
_archive_write_close_stays_open(st, fmt, chain, fe, ff, fc) ==
    IF st = ARCHIVE_STATE_FATAL
    THEN Outcome(st, ARCHIVE_FATAL, <<>>, <<>>)
    ELSE IF st \in {ARCHIVE_STATE_NEW, ARCHIVE_STATE_CLOSED}
    THEN Outcome(st, ARCHIVE_OK, <<>>, <<>>)
    ELSE IF ~__archive_check_magic(st, {ARCHIVE_STATE_HEADER, ARCHIVE_STATE_DATA})
    THEN InvalidState(st)
    ELSE LET r0 == IF st = ARCHIVE_STATE_DATA THEN fe ELSE ARCHIVE_OK
             h0 == IF st = ARCHIVE_STATE_DATA
                       THEN <<Hook("format_finish_entry", fe)>> ELSE <<>>
             r1 == IF "finish" \in fmt THEN Min(ff, r0) ELSE r0
             h1 == IF "finish" \in fmt
                       THEN <<Hook("format_finish", ff)>> ELSE <<>>
             c  == __archive_write_close_filter(Head(chain), fc)
         IN  Outcome(st, Min(c.ret, r1), h0 \o h1 \o c.hooks, <<>>)

\* _archive_write_close giving up after a failed phase: the backend's finish
\* hook and the filter close run only while the status so far is OK.
_archive_write_close_short_circuit(st, fmt, chain, fe, ff, fc) ==
    IF st = ARCHIVE_STATE_FATAL
    THEN Outcome(st, ARCHIVE_FATAL, <<>>, <<>>)
    ELSE IF st \in {ARCHIVE_STATE_NEW, ARCHIVE_STATE_CLOSED}
    THEN Outcome(st, ARCHIVE_OK, <<>>, <<>>)
    ELSE IF ~__archive_check_magic(st, {ARCHIVE_STATE_HEADER, ARCHIVE_STATE_DATA})
    THEN InvalidState(st)
    ELSE LET r0 == IF st = ARCHIVE_STATE_DATA THEN fe ELSE ARCHIVE_OK
             h0 == IF st = ARCHIVE_STATE_DATA
                       THEN <<Hook("format_finish_entry", fe)>> ELSE <<>>
             p1 == "finish" \in fmt /\ r0 = ARCHIVE_OK
             r1 == IF p1 THEN Min(ff, r0) ELSE r0
             h1 == IF p1 THEN <<Hook("format_finish", ff)>> ELSE <<>>
             p2 == r1 = ARCHIVE_OK
             c  == IF p2 THEN __archive_write_close_filter(Head(chain), fc)
                         ELSE Outcome("", r1, <<>>, <<>>)
         IN  Outcome(ARCHIVE_STATE_CLOSED, Min(c.ret, r1),
                     h0 \o h1 \o c.hooks,
                     <<Trans("close", st, ARCHIVE_STATE_CLOSED)>>)

\* _archive_write_close; fe, ff and fc are what a->format_finish_entry,
\* a->format_finish and the head filter's close hook return.
_archive_write_close(st, fmt, chain, fe, ff, fc) ==
    IF st = ARCHIVE_STATE_FATAL
    THEN Outcome(st, ARCHIVE_FATAL, <<>>, <<>>)
    ELSE IF st \in {ARCHIVE_STATE_NEW, ARCHIVE_STATE_CLOSED}
    THEN Outcome(st, ARCHIVE_OK, <<>>, <<>>)
    ELSE IF ~__archive_check_magic(st, {ARCHIVE_STATE_HEADER, ARCHIVE_STATE_DATA})
    THEN InvalidState(st)
    ELSE LET r0 == IF st = ARCHIVE_STATE_DATA THEN fe ELSE ARCHIVE_OK
             h0 == IF st = ARCHIVE_STATE_DATA
                       THEN <<Hook("format_finish_entry", fe)>> ELSE <<>>
             r1 == IF "finish" \in fmt THEN Min(ff, r0) ELSE r0
             h1 == IF "finish" \in fmt
                       THEN <<Hook("format_finish", ff)>> ELSE <<>>
             c  == __archive_write_close_filter(Head(chain), fc)
         IN  Outcome(ARCHIVE_STATE_CLOSED, Min(c.ret, r1),
                     h0 \o h1 \o c.hooks,
                     <<Trans("close", st, ARCHIVE_STATE_CLOSED)>>)


\* archive_write_open with the state mask of its check widened to
\* ARCHIVE_STATE_ANY: an open on a handle that is not NEW goes through.
archive_write_open_any_state(st, fmt, chain, fo, fi) ==
    IF ~__archive_check_magic(st, ARCHIVE_STATE_ANY)
    THEN [out |-> InvalidState(st), chain |-> chain]
    ELSE LET c1 == __archive_write_allocate_filter(chain, client_filter)
             o  == __archive_write_open_filter(Head(c1), fo)
             init == "init" \in fmt /\ o.ret = ARCHIVE_OK
         IN  [out |-> Outcome(ARCHIVE_STATE_HEADER,
                              IF init THEN fi ELSE o.ret,
                              o.hooks \o (IF init THEN <<Hook("format_init", fi)>>
                                                  ELSE <<>>),
                              <<Trans("open", st, ARCHIVE_STATE_HEADER)>>),
              chain |-> c1]


\* archive_write_open moving to HEADER only when everything succeeded: a
\* failed open leaves the handle in NEW.
archive_write_open_header_on_ok(st, fmt, chain, fo, fi) ==
    IF ~__archive_check_magic(st, {ARCHIVE_STATE_NEW})
    THEN [out |-> InvalidState(st), chain |-> chain]
    ELSE LET c0 == IF chain = <<>>
                       THEN archive_write_set_compression_none(chain)
                       ELSE chain
             c1 == __archive_write_allocate_filter(c0, client_filter)
             o  == __archive_write_open_filter(Head(c1), fo)
             init == "init" \in fmt /\ o.ret = ARCHIVE_OK
             ret == IF init THEN fi ELSE o.ret
         IN  [out |-> Outcome(IF ret = ARCHIVE_OK THEN ARCHIVE_STATE_HEADER
                                                  ELSE st,
                              ret,
                              o.hooks \o (IF init THEN <<Hook("format_init", fi)>>
                                                  ELSE <<>>),
                              IF ret = ARCHIVE_OK
                                  THEN <<Trans("open", st, ARCHIVE_STATE_HEADER)>>
                                  ELSE <<>>),
              chain |-> c1]

\* archive_write_open; fo and fi are what the head filter's open hook and
\* a->format_init return.  The result carries the chain as open leaves it.
archive_write_open(st, fmt, chain, fo, fi) ==
    IF ~__archive_check_magic(st, {ARCHIVE_STATE_NEW})
    THEN [out |-> InvalidState(st), chain |-> chain]
    ELSE LET c0 == IF chain = <<>>
                       THEN archive_write_set_compression_none(chain)
                       ELSE chain
             c1 == __archive_write_allocate_filter(c0, client_filter)
             o  == __archive_write_open_filter(Head(c1), fo)
             init == "init" \in fmt /\ o.ret = ARCHIVE_OK
         IN  [out |-> Outcome(ARCHIVE_STATE_HEADER,
                              IF init THEN fi ELSE o.ret,
                              o.hooks \o (IF init THEN <<Hook("format_init", fi)>>
                                                  ELSE <<>>),
                              <<Trans("open", st, ARCHIVE_STATE_HEADER)>>),
              chain |-> c1]

\* __archive_write_filters_free: walk the chain from node i on, head first,
\* invoking each free hook that is set; frs[i] is what node i's hook returns.
\* The statuses are folded into a local the function never returns.
RECURSIVE FreeWalk(_, _, _)
FreeWalk(chain, frs, i) ==
    IF i > Len(chain) THEN <<>>
    ELSE (IF "free" \in chain[i].hooks
              THEN <<FilterHook("filter_free", i, frs[i])>> ELSE <<>>)
         \o FreeWalk(chain, frs, i + 1)


\* __archive_write_filters_free leaving its loop at the first free hook that
\* fails: the rest of the chain is neither freed nor unlinked.
RECURSIVE FreeWalkUntilFailure(_, _, _)
FreeWalkUntilFailure(chain, frs, i) ==
    IF i > Len(chain) THEN [hooks |-> <<>>, chain |-> <<>>]
    ELSE IF "free" \in chain[i].hooks /\ frs[i] # ARCHIVE_OK
    THEN [hooks |-> <<FilterHook("filter_free", i, frs[i])>>,
          chain |-> SubSeq(chain, i + 1, Len(chain))]
    ELSE LET rest == FreeWalkUntilFailure(chain, frs, i + 1)
         IN  [hooks |-> (IF "free" \in chain[i].hooks
                             THEN <<FilterHook("filter_free", i, frs[i])>>
                             ELSE <<>>) \o rest.hooks,
              chain |-> rest.chain]

__archive_write_filters_free_until_failure(chain, frs) ==
    FreeWalkUntilFailure(chain, frs, 1)

__archive_write_filters_free(chain, frs) ==
    [hooks |-> FreeWalk(chain, frs, 1), chain |-> <<>>]


\* _archive_write_free without its implicit close: a handle freed in HEADER
\* or DATA has its chain freed without having been closed.
_archive_write_free_no_close(st, fmt, chain, fe, ff, fc, fd, frs) ==
    LET r  == IF "destroy" \in fmt THEN Min(fd, ARCHIVE_OK) ELSE ARCHIVE_OK
        hd == IF "destroy" \in fmt
                  THEN <<Hook("format_destroy", fd)>> ELSE <<>>
        w  == __archive_write_filters_free(chain, frs)
    IN  [out |-> Outcome(st, r, hd \o w.hooks, <<>>), chain |-> w.chain]

\* _archive_write_free; fe, ff, fc go to the implicit close, fd is what
\* a->format_destroy returns, frs what the filters' free hooks return.
_archive_write_free(st, fmt, chain, fe, ff, fc, fd, frs) ==
    LET c == IF st # ARCHIVE_STATE_CLOSED /\ st # ARCHIVE_STATE_FATAL
                 THEN _archive_write_close(st, fmt, chain, fe, ff, fc)
                 ELSE Outcome(st, ARCHIVE_OK, <<>>, <<>>)
        r  == IF "destroy" \in fmt THEN Min(fd, c.ret) ELSE c.ret
        hd == IF "destroy" \in fmt
                  THEN <<Hook("format_destroy", fd)>> ELSE <<>>
        w  == __archive_write_filters_free(chain, frs)
    IN  [out |-> Outcome(c.state, r, c.hooks \o hd \o w.hooks, c.trans),
         chain |-> w.chain]

\* ------------------------------------------------------ option dispatch
\* An options string as the tokenizer sees it: a sequence of tokens, each a
\* key[=value] pair or a piece the tokenizer cannot parse.  The handlers are
\* external: a pair carries what the backend's handler (fr) and what a
\* filter's handler (cr) answer for its key.
OptionStatus == {ARCHIVE_OK, ARCHIVE_FAILED, ARCHIVE_FATAL}
Pair(fr, cr) == [bad |-> FALSE, fr |-> fr, cr |-> cr]
Malformed == [bad |-> TRUE, fr |-> ARCHIVE_OK, cr |-> ARCHIVE_OK]
Tokens == {Malformed} \cup {Pair(fr, cr) : fr \in OptionStatus, cr \in OptionStatus}
OptionStrings == UNION {[1..n -> Tokens] : n \in 0..MaxOpts}

\* One invocation of an options handler: whose (node 0 is the backend), for
\* the key at which position of the string, and its answer.
OptHook(name, i, key, r) == [hook |-> name, node |-> i, key |-> key, r |-> r]

\* __archive_parse_options (archive_util.c, not among the sources) at position
\* p of s: the length of the pair parsed, 0 at the end of the string, a
\* negative value at a piece it cannot parse.
__archive_parse_options(s, p) ==
    IF p > Len(s) THEN 0
    ELSE IF s[p].bad THEN -1
    ELSE 1

\* The while loop of archive_write_set_format_options from position p on.
RECURSIVE format_options_loop(_, _, _, _)
format_options_loop(s, p, ret, hooks) ==
    LET len == __archive_parse_options(s, p)
    IN  IF len > 0
        THEN LET r == s[p].fr
                 h == Append(hooks, OptHook("format_options", 0, p, r))
             IN  IF r = ARCHIVE_FATAL
                 THEN [ret |-> r, hooks |-> h]
                 ELSE format_options_loop(s, p + len,
                          IF r < ARCHIVE_OK THEN ARCHIVE_WARN ELSE ret, h)
        ELSE IF len < 0
        THEN [ret |-> ARCHIVE_WARN, hooks |-> hooks]
        ELSE [ret |-> ret, hooks |-> hooks]


\* The same loop giving up at the first key the handler rejects.
RECURSIVE format_options_loop_stops_at_rejected(_, _, _, _)
format_options_loop_stops_at_rejected(s, p, ret, hooks) ==
    LET len == __archive_parse_options(s, p)
    IN  IF len > 0
        THEN LET r == s[p].fr
                 h == Append(hooks, OptHook("format_options", 0, p, r))
             IN  IF r = ARCHIVE_FATAL
                 THEN [ret |-> r, hooks |-> h]
                 ELSE IF r < ARCHIVE_OK
                 THEN [ret |-> ARCHIVE_WARN, hooks |-> h]
                 ELSE format_options_loop_stops_at_rejected(s, p + len, ret, h)
        ELSE IF len < 0
        THEN [ret |-> ARCHIVE_WARN, hooks |-> hooks]
        ELSE [ret |-> ret, hooks |-> hooks]

\* archive_write_set_format_options returning at the first rejected key.
archive_write_set_format_options_stops_at_rejected(st, fmt, s) ==
    IF ~__archive_check_magic(st, {ARCHIVE_STATE_NEW}) THEN InvalidState(st)
    ELSE IF s = <<>> THEN Outcome(st, ARCHIVE_OK, <<>>, <<>>)
    ELSE IF "options" \notin fmt THEN Outcome(st, ARCHIVE_OK, <<>>, <<>>)
    ELSE LET w == format_options_loop_stops_at_rejected(s, 1, ARCHIVE_OK, <<>>)
         IN  Outcome(st, w.ret, w.hooks, <<>>)

\* archive_write_set_format_options(s); an absent and an empty string are
\* both the empty sequence.
archive_write_set_format_options(st, fmt, s) ==
    IF ~__archive_check_magic(st, {ARCHIVE_STATE_NEW}) THEN InvalidState(st)
    ELSE IF s = <<>> THEN Outcome(st, ARCHIVE_OK, <<>>, <<>>)
    ELSE IF "options" \notin fmt THEN Outcome(st, ARCHIVE_OK, <<>>, <<>>)
    ELSE LET w == format_options_loop(s, 1, ARCHIVE_OK, <<>>)
         IN  Outcome(st, w.ret, w.hooks, <<>>)

\* The inner while loop of archive_write_set_compressor_options for the
\* chain's i-th node, from position p on.  It leaves s (here p) where its
\* last parse stopped and len at that parse's value; done says a handler
\* answered ARCHIVE_FATAL and the function returned.
RECURSIVE filter_options_loop(_, _, _, _, _)
filter_options_loop(s, p, i, ret, hooks) ==
    LET len == __archive_parse_options(s, p)
    IN  IF len > 0
        THEN LET r == s[p].cr
                 h == Append(hooks, OptHook("filter_options", i, p, r))
             IN  IF r = ARCHIVE_FATAL
                 THEN [p |-> p, len |-> len, ret |-> r, hooks |-> h,
                       done |-> TRUE]
                 ELSE filter_options_loop(s, p + len, i,
                          IF r < ARCHIVE_OK THEN ARCHIVE_WARN ELSE ret, h)
        ELSE [p |-> p, len |-> len, ret |-> ret, hooks |-> hooks,
              done |-> FALSE]

\* The for loop over the chain, from node i on: s is not moved back to the
\* start of the string between two filters.
RECURSIVE filters_options_loop(_, _, _, _, _, _, _)
filters_options_loop(chain, i, s, p, len, ret, hooks) ==
    IF i > Len(chain)
    THEN [len |-> len, ret |-> ret, hooks |-> hooks, done |-> FALSE]
    ELSE IF "options" \notin chain[i].hooks
    THEN filters_options_loop(chain, i + 1, s, p, len, ret, hooks)
    ELSE LET w == filter_options_loop(s, p, i, ret, hooks)
         IN  IF w.done
             THEN [len |-> w.len, ret |-> w.ret, hooks |-> w.hooks,
                   done |-> TRUE]
             ELSE filters_options_loop(chain, i + 1, s, w.p, w.len, w.ret,
                                       w.hooks)

\* archive_write_set_compressor_options(s).
archive_write_set_compressor_options(st, chain, s) ==
    IF ~__archive_check_magic(st, {ARCHIVE_STATE_NEW}) THEN InvalidState(st)
    ELSE IF s = <<>> THEN Outcome(st, ARCHIVE_OK, <<>>, <<>>)
    ELSE LET w == filters_options_loop(chain, 1, s, 1, 0, ARCHIVE_OK, <<>>)
         IN  IF w.done THEN Outcome(st, w.ret, w.hooks, <<>>)
             ELSE IF w.len < 0 THEN Outcome(st, ARCHIVE_WARN, w.hooks, <<>>)
             ELSE Outcome(st, w.ret, w.hooks, <<>>)

\* archive_write_set_options reporting a warning of either sub-operation.
archive_write_set_options_warns_on_either(st, fmt, chain, s) ==
    LET o1 == archive_write_set_format_options(st, fmt, s)
        o2 == archive_write_set_compressor_options(st, chain, s)
        r1 == o1.ret
        r2 == o2.ret
    IN  IF r1 < ARCHIVE_WARN THEN [out |-> o1, subs |-> <<r1>>]
        ELSE IF r2 < ARCHIVE_WARN
        THEN [out |-> [o2 EXCEPT !.hooks = o1.hooks \o o2.hooks],
              subs |-> <<r1, r2>>]
        ELSE [out |-> Outcome(st,
                          IF r1 = ARCHIVE_WARN \/ r2 = ARCHIVE_WARN
                              THEN ARCHIVE_WARN ELSE ARCHIVE_OK,
                          o1.hooks \o o2.hooks, <<>>),
              subs |-> <<r1, r2>>]

\* archive_write_set_options(s): subs are r1 and, when it was assigned, r2.
archive_write_set_options(st, fmt, chain, s) ==
    LET o1 == archive_write_set_format_options(st, fmt, s)
        o2 == archive_write_set_compressor_options(st, chain, s)
        r1 == o1.ret
        r2 == o2.ret
    IN  IF r1 < ARCHIVE_WARN THEN [out |-> o1, subs |-> <<r1>>]
        ELSE IF r2 < ARCHIVE_WARN
        THEN [out |-> [o2 EXCEPT !.hooks = o1.hooks \o o2.hooks],
              subs |-> <<r1, r2>>]
        ELSE [out |-> Outcome(st,
                          IF r1 = ARCHIVE_WARN /\ r2 = ARCHIVE_WARN
                              THEN ARCHIVE_WARN ELSE ARCHIVE_OK,
                          o1.hooks \o o2.hooks, <<>>),
              subs |-> <<r1, r2>>]

\* ------------------------------------------------------ client write loop
\* Values of a size_t.
SizeMod == 2 ^ SizeBits
\* What the client's writer may return (an ssize_t): a negative value (-1 as
\* write(2) gives, or one of the library's statuses), zero, or a count, which
\* the writer is trusted to keep within the bytes it was offered.
WriterReturns == {-1, ARCHIVE_FAILED, ARCHIVE_FATAL} \cup 0..(MaxBuf + 1)

\* archive_write_client_write(f, _buff, length) on entry: buff is the offset
\* of the local pointer buff into the caller's buffer of L bytes, log the
\* calls of the writer so far as <<bytes offered, value returned>>.
client_write_enter(L) ==
    [pc |-> "loop", L |-> L, buff |-> 0, length |-> L, log |-> <<>>, ret |-> 0]

\* One turn of the while loop, the writer returning written.
client_write_turn(c, written) ==
    LET c1 == [c EXCEPT !.log = Append(c.log, <<c.length, written>>)]
    IN  IF written < 0 THEN [c1 EXCEPT !.pc = "done", !.ret = written]
        ELSE IF written = 0 THEN [c1 EXCEPT !.pc = "done", !.ret = ARCHIVE_FATAL]
        ELSE [c1 EXCEPT !.buff = c.buff + written,
                        !.length = (c.length - written) % SizeMod]

\* The loop's exit when length is 0.
client_write_exit(c) == [c EXCEPT !.pc = "done", !.ret = ARCHIVE_OK]

\* ------------------------------------------------------------ actions
\* How many times the hook called name was invoked in a call's hooks.
Count(hooks, name) == Cardinality({i \in 1..Len(hooks) : hooks[i].hook = name})
Add(n, k) == IF n + k < MaxCount THEN n + k ELSE MaxCount

Live == magic = ARCHIVE_WRITE_MAGIC

\* The statuses a hook may return in a call: all of them when the call can
\* reach the hook, a single one (never looked at) when it cannot.
Rets(reached) == IF reached THEN Status ELSE {ARCHIVE_OK}
TeardownRets(reached) == IF reached THEN TeardownStatus ELSE {ARCHIVE_OK}
\* One status for every node of the chain that has a free hook.
FreeRets(chain) ==
    {frs \in [1..Len(chain) -> TeardownStatus] :
        \A i \in 1..Len(chain) :
            "free" \notin chain[i].hooks => frs[i] = ARCHIVE_OK}
InData == state = ARCHIVE_STATE_DATA
Writing == state \in {ARCHIVE_STATE_HEADER, ARCHIVE_STATE_DATA}

Record(op, arg, out) ==
    [op |-> op, pre |-> state, arg |-> arg, state |-> out.state,
     ret |-> out.ret, err |-> out.err, hooks |-> out.hooks, trans |-> out.trans,
     after_header |-> prev_header, headers_before |-> any_header]

\* No archive_write_client_write is running.
CwIdle == [pc |-> "idle"]

\* archive_write_new, followed by the binding of a format backend: the
\* mandatory slots (write_header, write_data, finish_entry) are bound, the
\* optional ones (init, finish, destroy) are bound or left NULL.
Init ==
    /\ magic = ARCHIVE_WRITE_MAGIC
    /\ state = ARCHIVE_STATE_NEW
    /\ skip_file_dev = 0
    /\ skip_file_ino = 0
    /\ format \in FormatShapes
    /\ filters = <<>>
    /\ last = [op |-> "new", pre |-> ARCHIVE_STATE_NEW, arg |-> <<>>,
               state |-> ARCHIVE_STATE_NEW, ret |-> ARCHIVE_OK, err |-> "",
               hooks |-> <<>>, trans |-> <<>>,
               after_header |-> FALSE, headers_before |-> FALSE]
    /\ n_format_finish = 0
    /\ n_filter_close = 0
    /\ prev_header = FALSE
    /\ any_header = FALSE
    /\ n_filter_open = 0
    /\ open_failed = FALSE
    /\ cw = CwIdle

\* A filter's set-up code allocates its node and fills in its slots.
AllocateFilter ==
    /\ Live
    /\ Len(filters) < MaxFilters
    /\ \E shape \in FilterShapes :
         IF __archive_check_magic(state, {ARCHIVE_STATE_NEW})
         THEN /\ filters' = __archive_write_allocate_filter(filters,
                                                            Node("filter", shape))
              /\ last' = Record("allocate_filter", <<>>,
                                Outcome(state, ARCHIVE_OK, <<>>, <<>>))
         ELSE /\ filters' = filters
              /\ last' = Record("allocate_filter", <<>>, InvalidState(state))
    /\ UNCHANGED <<cw, n_filter_open, open_failed,
                   magic, state, skip_file_dev, skip_file_ino, format,
                   n_format_finish, n_filter_close, prev_header, any_header>>

\* archive_write_set_skip_file(d, i): legal in any state.
SetSkipFile ==
    /\ Live
    /\ \E d \in 0..MaxDev, i \in 0..MaxIno :
         /\ skip_file_dev' = d
         /\ skip_file_ino' = i
         /\ last' = Record("set_skip_file", <<d, i>>,
                           Outcome(state, ARCHIVE_OK, <<>>, <<>>))
    /\ UNCHANGED <<cw, n_filter_open, open_failed,
                   magic, state, format, filters, n_format_finish,
                   n_filter_close, prev_header, any_header>>

Open ==
    /\ Live
    /\ \E fo \in Rets(state = ARCHIVE_STATE_NEW),
          fi \in Rets(state = ARCHIVE_STATE_NEW /\ "init" \in format) :
         LET o == archive_write_open(state, format, filters, fo, fi)
         IN  /\ state' = o.out.state
             /\ filters' = o.chain
             /\ last' = Record("open", <<Len(filters)>>, o.out)
             /\ n_filter_open' = Add(n_filter_open,
                                     Count(o.out.hooks, "filter_open"))
             /\ open_failed' = IF o.out.err = "" THEN o.out.ret # ARCHIVE_OK
                                                 ELSE open_failed
    /\ UNCHANGED <<cw,
                   magic, skip_file_dev, skip_file_ino, format,
                   n_format_finish, n_filter_close, prev_header, any_header>>

WriteHeader ==
    /\ Live
    /\ \E dev \in 0..MaxDev, ino \in 0..MaxIno,
          fe \in Rets(InData), wh \in Rets(Writing) :
         LET o == _archive_write_header(state, skip_file_dev, skip_file_ino,
                                        dev, ino, fe, wh)
         IN  /\ state' = o.state
             /\ last' = Record("write_header", <<dev, ino>>, o)
             /\ prev_header' = IF o.err = "" THEN TRUE ELSE prev_header
             /\ any_header' = IF o.err = "" THEN TRUE ELSE any_header
    /\ UNCHANGED <<cw, n_filter_open, open_failed,
                   magic, skip_file_dev, skip_file_ino, format, filters,
                   n_format_finish, n_filter_close>>

WriteData ==
    /\ Live
    /\ \E s \in 0..MaxLen, wd \in Rets(InData) \cup 0..MaxLen :
         /\ wd <= s
         /\ LET o == _archive_write_data(state, wd)
            IN  /\ state' = o.state
                /\ last' = Record("write_data", <<s>>, o)
    /\ UNCHANGED <<cw, n_filter_open, open_failed,
                   magic, skip_file_dev, skip_file_ino, format, filters,
                   n_format_finish, n_filter_close, prev_header, any_header>>

FinishEntry ==
    /\ Live
    /\ \E fe \in Rets(InData) :
         LET o == _archive_write_finish_entry(state, fe)
         IN  /\ state' = o.state
             /\ last' = Record("finish_entry", <<>>, o)
             /\ prev_header' = IF o.err = "" THEN FALSE ELSE prev_header
    /\ UNCHANGED <<cw, n_filter_open, open_failed,
                   magic, skip_file_dev, skip_file_ino, format, filters,
                   n_format_finish, n_filter_close, any_header>>

Close ==
    /\ Live
    /\ \E fe \in Rets(InData), ff \in Rets(Writing /\ "finish" \in format),
          fc \in Rets(Writing) :
         LET o == _archive_write_close(state, format, filters, fe, ff, fc)
         IN  /\ state' = o.state
             /\ last' = Record("close", <<>>, o)
             /\ n_format_finish' = Add(n_format_finish,
                                       Count(o.hooks, "format_finish"))
             /\ n_filter_close' = Add(n_filter_close,
                                      Count(o.hooks, "filter_close"))
    /\ UNCHANGED <<cw, n_filter_open, open_failed,
                   magic, skip_file_dev, skip_file_ino, format, filters,
                   prev_header, any_header>>

Free ==
    /\ Live
    /\ \E fe \in TeardownRets(InData),
          ff \in TeardownRets(Writing /\ "finish" \in format),
          fc \in TeardownRets(Writing),
          fd \in TeardownRets("destroy" \in format),
          frs \in FreeRets(filters) :
         LET o == _archive_write_free(state, format, filters, fe, ff, fc, fd, frs)
         IN  /\ state' = o.out.state
             /\ filters' = o.chain
             /\ last' = Record("free", filters, o.out)
             /\ n_format_finish' = Add(n_format_finish,
                                       Count(o.out.hooks, "format_finish"))
             /\ n_filter_close' = Add(n_filter_close,
                                      Count(o.out.hooks, "filter_close"))
    /\ magic' = MagicFreed
    /\ UNCHANGED <<cw, n_filter_open, open_failed,
                   skip_file_dev, skip_file_ino, format, prev_header, any_header>>

\* archive_write_set_format_options(s).
SetFormatOptions ==
    /\ Live
    /\ \E s \in OptionStrings :
         last' = Record("set_format_options", [s |-> s, subs |-> <<>>],
                        archive_write_set_format_options(state, format, s))
    /\ UNCHANGED <<magic, state, skip_file_dev, skip_file_ino, format, filters,
                   n_format_finish, n_filter_close, prev_header, any_header,
                   n_filter_open, open_failed, cw>>

\* archive_write_set_compressor_options(s).
SetCompressorOptions ==
    /\ Live
    /\ \E s \in OptionStrings :
         last' = Record("set_compressor_options", [s |-> s, subs |-> <<>>],
                        archive_write_set_compressor_options(state, filters, s))
    /\ UNCHANGED <<magic, state, skip_file_dev, skip_file_ino, format, filters,
                   n_format_finish, n_filter_close, prev_header, any_header,
                   n_filter_open, open_failed, cw>>

\* archive_write_set_options(s).
SetOptions ==
    /\ Live
    /\ \E s \in OptionStrings :
         LET o == archive_write_set_options(state, format, filters, s)
         IN  last' = Record("set_options", [s |-> s, subs |-> o.subs], o.out)
    /\ UNCHANGED <<magic, state, skip_file_dev, skip_file_ino, format, filters,
                   n_format_finish, n_filter_close, prev_header, any_header,
                   n_filter_open, open_failed, cw>>

\* A filter or the backend hands archive_write_client_write a buffer.
ClientWrite ==
    /\ cw.pc \in {"idle", "done"}
    /\ \E L \in 0..MaxBuf : cw' = client_write_enter(L)
    /\ UNCHANGED <<magic, state, skip_file_dev, skip_file_ino, format, filters,
                   last, n_format_finish, n_filter_close, prev_header,
                   any_header, n_filter_open, open_failed>>

\* while (length > 0): the client's writer is called and returns.
ClientWriter ==
    /\ cw.pc = "loop"
    /\ cw.length > 0
    /\ Len(cw.log) < MaxCalls
    /\ \E written \in WriterReturns : cw' = client_write_turn(cw, written)
    /\ UNCHANGED <<magic, state, skip_file_dev, skip_file_ino, format, filters,
                   last, n_format_finish, n_filter_close, prev_header,
                   any_header, n_filter_open, open_failed>>

\* length is 0: return (ARCHIVE_OK).
ClientWriteReturn ==
    /\ cw.pc = "loop"
    /\ cw.length = 0
    /\ cw' = client_write_exit(cw)
    /\ UNCHANGED <<magic, state, skip_file_dev, skip_file_ino, format, filters,
                   last, n_format_finish, n_filter_close, prev_header,
                   any_header, n_filter_open, open_failed>>

Next ==
    \/ AllocateFilter
    \/ SetSkipFile
    \/ Open
    \/ WriteHeader
    \/ WriteData
    \/ FinishEntry
    \/ Close
    \/ Free

Spec == Init /\ [][Next]_vars

\* The configuration calls of a handle up to its open.
NextOptions ==
    \/ AllocateFilter
    \/ SetFormatOptions
    \/ SetCompressorOptions
    \/ SetOptions
    \/ Open

SpecOptions == Init /\ [][NextOptions]_vars

\* The client sink adapter's write, one call after another.
NextWrite ==
    \/ ClientWrite
    \/ ClientWriter
    \/ ClientWriteReturn

SpecWrite == Init /\ [][NextWrite]_vars

\* ------------------------------------------------- reading a call's record
\* The latest call was op and ran past __archive_check_magic.
Ran(op) == last.op = op /\ last.err = ""
\* Positions of the invocations of hook name in the latest call.
At(name) == {i \in 1..Len(last.hooks) : last.hooks[i].hook = name}
Invoked(name) == At(name) # {}
\* What the (single) invocation of hook name returned.
Returned(name) == last.hooks[CHOOSE i \in At(name) : TRUE].r
\* Result of write_header's implicit finish step: the finish-entry hook's
\* status when it ran, OK when there was nothing to finish.
ImplicitFinish ==
    IF Invoked("format_finish_entry") THEN Returned("format_finish_entry")
    ELSE ARCHIVE_OK
HookNames == [i \in 1..Len(last.hooks) |-> last.hooks[i].hook]
RECURSIVE MinOf(_, _)
MinOf(hooks, acc) ==
    IF hooks = <<>> THEN acc ELSE MinOf(Tail(hooks), Min(Head(hooks).r, acc))

\* ------------------------------------------------------------ claims
\* The states in which a call of op passes its state check.  close and free
\* answer in every state (close returns at once in NEW, CLOSED and FATAL).
LegalStates(op) ==
    CASE op = "open" -> {ARCHIVE_STATE_NEW}
      [] op = "allocate_filter" -> {ARCHIVE_STATE_NEW}
      [] op = "write_header" -> {ARCHIVE_STATE_HEADER, ARCHIVE_STATE_DATA}
      [] op = "finish_entry" -> {ARCHIVE_STATE_HEADER, ARCHIVE_STATE_DATA}
      [] op = "write_data" -> {ARCHIVE_STATE_DATA}
      [] OTHER -> ARCHIVE_STATE_ANY

\* An assignment to the state along one of the edges of the state graph.
LegalEdge(t) ==
    LET writing == {ARCHIVE_STATE_HEADER, ARCHIVE_STATE_DATA}
    IN  \/ t.fn = "open" /\ t.from = ARCHIVE_STATE_NEW
                         /\ t.to = ARCHIVE_STATE_HEADER
        \/ t.fn = "write_header" /\ t.from \in writing
                                 /\ t.to = ARCHIVE_STATE_DATA
        \/ t.fn = "finish_entry" /\ t.from \in writing
                                 /\ t.to = ARCHIVE_STATE_HEADER
        \/ t.fn = "close" /\ t.from \in writing /\ t.to = ARCHIVE_STATE_CLOSED
        \/ t.from \in writing /\ t.to = ARCHIVE_STATE_FATAL

\* The assignments of the latest call lead from the state it was called in
\* to the state it left, one after the other.
TransChained ==
    LET t == last.trans
    IN  /\ state = last.state
        /\ IF t = <<>> THEN last.state = last.pre
           ELSE /\ t[1].from = last.pre
                /\ t[Len(t)].to = last.state
                /\ \A i \in 1..(Len(t) - 1) : t[i].to = t[i + 1].from

\* C1: the state is always one of NEW, HEADER, DATA, CLOSED, FATAL; every
\* assignment a call makes to it follows an edge NEW->HEADER (open),
\* HEADER/DATA->DATA (write_header), DATA/HEADER->HEADER (finish_entry),
\* HEADER/DATA->CLOSED (close) or HEADER/DATA->FATAL, and these assignments
\* account for the whole change; a call outside its legal states yields
\* InvalidState, invokes no hook and leaves the state unchanged.
C1_StateMachine ==
    /\ state \in ARCHIVE_STATE_ANY
    /\ TransChained
    /\ \A i \in 1..Len(last.trans) : LegalEdge(last.trans[i])
    /\ last.op # "new" /\ last.pre \notin LegalStates(last.op)
         => /\ last.err = "InvalidState"
            /\ last.hooks = <<>>
            /\ state = last.pre
    /\ last.op # "new" /\ last.pre \in LegalStates(last.op) => last.err = ""

\* C1 witness: write_data was called in HEADER and refused.
C1_Witness ==
    /\ last.op = "write_data"
    /\ last.pre = ARCHIVE_STATE_HEADER
    /\ last.err = "InvalidState"
    /\ state = ARCHIVE_STATE_HEADER

\* C2: once the state is FATAL it stays FATAL across every call; close,
\* write_header, write_data and finish_entry then invoke no backend hook and
\* no filter hook, and close returns Fatal.
C2_FatalAbsorbing ==
    last.pre = ARCHIVE_STATE_FATAL =>
        /\ state = ARCHIVE_STATE_FATAL
        /\ last.op \in {"close", "write_header", "write_data", "finish_entry"}
             => last.hooks = <<>>
        /\ last.op = "close" => last.ret = ARCHIVE_FATAL

\* C2 witness: close was called on a FATAL handle.
C2_Witness ==
    /\ last.op = "close"
    /\ last.pre = ARCHIVE_STATE_FATAL
    /\ last.ret = ARCHIVE_FATAL
    /\ state = ARCHIVE_STATE_FATAL

\* C3: when write_header, write_data or an explicit finish_entry returns
\* Fatal because a backend hook reported Fatal, the state is FATAL when the
\* call returns.
C3_FatalForcesFatalState ==
    /\ last.op \in {"write_header", "write_data", "finish_entry"}
    /\ last.err = ""
    /\ last.ret = ARCHIVE_FATAL
    /\ \E i \in 1..Len(last.hooks) : last.hooks[i].r = ARCHIVE_FATAL
    => state = ARCHIVE_STATE_FATAL

\* C4 as first stated: a write_header that follows another write_header with
\* no explicit finish_entry in between invokes the backend's finish-entry
\* hook exactly once, before its write-header hook; the first write_header
\* after open invokes it zero times.
C4_OneFinishPerLaterHeader ==
    Ran("write_header") =>
        /\ last.after_header => At("format_finish_entry") = {1}
        /\ ~last.headers_before => At("format_finish_entry") = {}

\* C4: a write_header called in DATA (the header before it reached the
\* backend and was not Fatal, and no finish_entry came in between) invokes
\* the backend's finish-entry hook exactly once, before any write-header
\* hook of the same call; a write_header called in HEADER - the first after
\* open, or one after a header that was rejected or returned early - invokes
\* the finish-entry hook zero times.
C4_FinishOncePerOpenEntry ==
    Ran("write_header") =>
        /\ last.pre = ARCHIVE_STATE_DATA => At("format_finish_entry") = {1}
        /\ last.pre = ARCHIVE_STATE_HEADER => At("format_finish_entry") = {}
        /\ ~last.headers_before => last.pre = ARCHIVE_STATE_HEADER
        /\ last.pre = ARCHIVE_STATE_DATA => last.after_header

\* C4 witness: a second write_header in a row finished the open entry and
\* then reached the backend's write-header hook.
C4_Witness ==
    /\ Ran("write_header")
    /\ last.after_header
    /\ last.pre = ARCHIVE_STATE_DATA
    /\ HookNames = <<"format_finish_entry", "format_write_header">>

\* The entry of the latest write_header is the configured skip file.
SkipHit ==
    SkipFileMatch(skip_file_dev, skip_file_ino, last.arg[1], last.arg[2])

\* C5 as first stated: for every non-fatal status f of the implicit finish
\* step and every non-fatal status h of the write-header hook, write_header
\* goes on to the write-header hook and returns the lower of f and h.
C5_AggregatesEveryNonFatal ==
    Ran("write_header") /\ ~SkipHit /\ ImplicitFinish \in NonFatal =>
        /\ Invoked("format_write_header")
        /\ Returned("format_write_header") # ARCHIVE_FATAL
             => last.ret = Min(ImplicitFinish, Returned("format_write_header"))

\* C5: when the implicit finish step returns OK or Warn, write_header goes on
\* to the backend's write-header hook and, that hook returning a non-fatal h,
\* returns the lower of the two (Warn and OK give Warn); when the implicit
\* finish step returns Retry or Failed, write_header returns that status at
\* once and the write-header hook is not invoked.
C5_AggregatesOkAndWarn ==
    Ran("write_header") /\ ~SkipHit =>
        /\ ImplicitFinish \in {ARCHIVE_OK, ARCHIVE_WARN} =>
             /\ Invoked("format_write_header")
             /\ Returned("format_write_header") # ARCHIVE_FATAL
                  => last.ret = Min(ImplicitFinish,
                                    Returned("format_write_header"))
        /\ ImplicitFinish \in {ARCHIVE_RETRY, ARCHIVE_FAILED} =>
             /\ ~Invoked("format_write_header")
             /\ last.ret = ImplicitFinish

\* C5 witness: the implicit finish returned Warn, the write-header hook OK,
\* and write_header returned Warn.
C5_Witness ==
    /\ Ran("write_header")
    /\ Invoked("format_finish_entry")
    /\ ImplicitFinish = ARCHIVE_WARN
    /\ Invoked("format_write_header")
    /\ Returned("format_write_header") = ARCHIVE_OK
    /\ last.ret = ARCHIVE_WARN

\* C6 as first stated: every write_header that returns a status other than
\* Fatal leaves the state DATA.
C6_NonFatalHeaderLeavesData ==
    Ran("write_header") /\ last.ret # ARCHIVE_FATAL
        => state = ARCHIVE_STATE_DATA

\* C6: a write_header that returns a status other than Fatal leaves the
\* state DATA when the backend's write-header hook was invoked (whatever
\* non-fatal status it returned) and HEADER when the call returned before
\* that hook: on a Retry or Failed implicit finish, or on a skip-file
\* rejection.
C6_DataIffHeaderHookRan ==
    Ran("write_header") /\ last.ret # ARCHIVE_FATAL =>
        /\ Invoked("format_write_header") => state = ARCHIVE_STATE_DATA
        /\ ~Invoked("format_write_header") =>
             /\ state = ARCHIVE_STATE_HEADER
             /\ SkipHit \/ ImplicitFinish \in {ARCHIVE_RETRY, ARCHIVE_FAILED}

\* C6 witness: the write-header hook returned Failed and the state is DATA.
C6_Witness ==
    /\ Ran("write_header")
    /\ Invoked("format_write_header")
    /\ last.ret = ARCHIVE_FAILED
    /\ state = ARCHIVE_STATE_DATA

\* C7: with set_skip_file(D, I), I # 0, in force, a write_header that gets
\* past its implicit finish step fails with Failed and without invoking the
\* backend's write-header hook when the entry's (device, inode) is (D, I),
\* and reaches the write-header hook when the entry has device D and another
\* inode.
C7_SkipIdentityGuard ==
    /\ Ran("write_header")
    /\ ImplicitFinish \in {ARCHIVE_OK, ARCHIVE_WARN}
    /\ skip_file_ino # 0
    => /\ last.arg = <<skip_file_dev, skip_file_ino>> =>
            /\ last.ret = ARCHIVE_FAILED
            /\ ~Invoked("format_write_header")
       /\ last.arg[1] = skip_file_dev /\ last.arg[2] # skip_file_ino =>
            Invoked("format_write_header")

\* C8: a finish_entry called in HEADER or DATA invokes the backend's
\* finish-entry hook exactly once when the state was DATA and not at all,
\* returning OK, when it was HEADER; whatever non-fatal status it returns,
\* the state is HEADER afterwards.
C8_FinishEntryLeavesHeader ==
    Ran("finish_entry") =>
        /\ last.pre = ARCHIVE_STATE_DATA =>
             /\ HookNames = <<"format_finish_entry">>
             /\ last.ret = Returned("format_finish_entry")
        /\ last.pre = ARCHIVE_STATE_HEADER =>
             /\ last.hooks = <<>>
             /\ last.ret = ARCHIVE_OK
        /\ last.ret # ARCHIVE_FATAL => state = ARCHIVE_STATE_HEADER

\* C8 witness: the finish-entry hook failed and the state is HEADER.
C8_Witness ==
    /\ Ran("finish_entry")
    /\ last.pre = ARCHIVE_STATE_DATA
    /\ last.ret = ARCHIVE_FAILED
    /\ state = ARCHIVE_STATE_HEADER

\* C9: a close in NEW or CLOSED returns OK, invokes no hook and leaves the
\* state as it was; over the whole life of a handle the backend's finish
\* hook and the filter chain's close are each invoked at most once.
C9_CloseTolerant ==
    /\ last.op = "close" /\ last.pre \in {ARCHIVE_STATE_NEW, ARCHIVE_STATE_CLOSED}
         => /\ last.err = ""
            /\ last.ret = ARCHIVE_OK
            /\ last.hooks = <<>>
            /\ state = last.pre
    /\ n_format_finish <= 1
    /\ n_filter_close <= 1

\* C9 witness: a second close, after one that closed the filter chain.
C9_Witness ==
    /\ last.op = "close"
    /\ last.pre = ARCHIVE_STATE_CLOSED
    /\ last.ret = ARCHIVE_OK
    /\ n_filter_close = 1

\* The hooks a close in state pre has to invoke, in order.
ClosePhases(pre) ==
    (IF pre = ARCHIVE_STATE_DATA THEN <<"format_finish_entry">> ELSE <<>>)
    \o (IF "finish" \in format THEN <<"format_finish">> ELSE <<>>)
    \o (IF "close" \in Head(filters).hooks THEN <<"filter_close">> ELSE <<>>)

\* C10: a close in HEADER or DATA invokes, in this order, the backend's
\* finish-entry hook (only from DATA), the backend's finish hook and the
\* filter chain's close, each whatever the earlier ones returned; it returns
\* the lowest of their statuses and leaves the state CLOSED.
C10_ClosePhases ==
    Ran("close") /\ last.pre \in {ARCHIVE_STATE_HEADER, ARCHIVE_STATE_DATA} =>
        /\ HookNames = ClosePhases(last.pre)
        /\ last.ret = MinOf(last.hooks, ARCHIVE_OK)
        /\ state = ARCHIVE_STATE_CLOSED

\* C10 witness: the finish-entry hook returned Fatal, the two later phases
\* ran all the same, and close returned Fatal and left the state CLOSED.
C10_Witness ==
    /\ Ran("close")
    /\ last.pre = ARCHIVE_STATE_DATA
    /\ HookNames = <<"format_finish_entry", "format_finish", "filter_close">>
    /\ last.hooks[1].r = ARCHIVE_FATAL
    /\ last.hooks[3].r = ARCHIVE_OK
    /\ last.ret = ARCHIVE_FATAL
    /\ state = ARCHIVE_STATE_CLOSED

\* The hooks a close in state pre invokes on the chain given, in order; none
\* outside HEADER and DATA.
ClosePhasesOn(pre, chain) ==
    IF pre \notin {ARCHIVE_STATE_HEADER, ARCHIVE_STATE_DATA} THEN <<>>
    ELSE (IF pre = ARCHIVE_STATE_DATA THEN <<"format_finish_entry">> ELSE <<>>)
         \o (IF "finish" \in format THEN <<"format_finish">> ELSE <<>>)
         \o (IF "close" \in Head(chain).hooks THEN <<"filter_close">> ELSE <<>>)

\* The nodes of the chain that have a free hook, head first.
RECURSIVE FreeOrder(_, _)
FreeOrder(chain, i) ==
    IF i > Len(chain) THEN <<>>
    ELSE (IF "free" \in chain[i].hooks THEN <<i>> ELSE <<>>)
         \o FreeOrder(chain, i + 1)

\* The nodes whose free hook the latest call invoked, in the order it did.
FreedNodes ==
    LET at == {i \in 1..Len(last.hooks) : last.hooks[i].hook = "filter_free"}
        RECURSIVE walk(_)
        walk(i) == IF i > Len(last.hooks) THEN <<>>
                   ELSE (IF i \in at THEN <<last.hooks[i].node>> ELSE <<>>)
                        \o walk(i + 1)
    IN  walk(1)

\* C11: free, in any state, first performs close when the state is neither
\* CLOSED nor FATAL, then invokes the backend's destroy hook exactly once and
\* then the free hook of each chain node exactly once, head to tail, and
\* leaves the chain empty and the handle invalid - whatever the hooks return.
C11_FreeTearsDownAll ==
    last.op = "free" =>
        /\ magic = MagicFreed
        /\ filters = <<>>
        /\ FreedNodes = FreeOrder(last.arg, 1)
        /\ HookNames =
             ClosePhasesOn(last.pre, last.arg)
             \o (IF "destroy" \in format THEN <<"format_destroy">> ELSE <<>>)
             \o [i \in 1..Len(FreedNodes) |-> "filter_free"]

\* C11 witness: free in DATA on a chain of two filters and the client node,
\* every one of the six hooks returning Fatal.
C11_Witness ==
    /\ last.op = "free"
    /\ last.pre = ARCHIVE_STATE_DATA
    /\ Len(last.hooks) = 6
    /\ \A i \in 1..6 : last.hooks[i].r = ARCHIVE_FATAL
    /\ FreedNodes = <<1, 2>>
    /\ filters = <<>>

\* C12: the status free returns is at least as severe as the status of every
\* hook it invoked: the implicit close's, the backend's destroy and every
\* filter's free hook.
C12_FreeAggregatesFilterFrees ==
    last.op = "free" =>
        \A i \in 1..Len(last.hooks) : last.ret <= last.hooks[i].r

C16_WitnessNoFilters ==
    /\ Ran("open")
    /\ last.arg = <<0>>
    /\ filters = <<client_filter>>

\* C17 as first stated: when a handle that was opened is freed, in whatever
\* state (HEADER, DATA, CLOSED or FATAL), the head filter's open hook and
\* its close hook have each been invoked exactly once (where the head has
\* them) and each node's free hook exactly once.
C17_OpenCloseFreeOnceEach ==
    last.op = "free" /\ last.pre # ARCHIVE_STATE_NEW =>
        /\ "open" \in Head(last.arg).hooks => n_filter_open = 1
        /\ "close" \in Head(last.arg).hooks => n_filter_close = 1
        /\ FreedNodes = FreeOrder(last.arg, 1)

\* C17: when a handle that was opened is freed in HEADER, DATA or CLOSED,
\* the head filter's open hook and close hook have each been invoked exactly
\* once (where the head has them) and each node's free hook exactly once,
\* open before close and close before free; when it is freed in FATAL the
\* open and free hooks have run once each in that order, and the chain's
\* close has not been invoked at all.
C17_FilterLifecycle ==
    /\ Invoked("filter_open") =>
         /\ last.op = "open"
         /\ last.pre = ARCHIVE_STATE_NEW
         /\ n_filter_close = 0
    /\ Invoked("filter_close") =>
         last.pre \in {ARCHIVE_STATE_HEADER, ARCHIVE_STATE_DATA}
    /\ last.op = "free" /\ last.pre # ARCHIVE_STATE_NEW =>
         /\ n_filter_open = IF "open" \in Head(last.arg).hooks THEN 1 ELSE 0
         /\ n_filter_close = IF /\ "close" \in Head(last.arg).hooks
                                /\ last.pre # ARCHIVE_STATE_FATAL
                             THEN 1 ELSE 0
         /\ FreedNodes = FreeOrder(last.arg, 1)
         /\ \A i \in At("filter_close"), j \in At("filter_free") : i < j

\* C17 witness: a handle with two filters freed in DATA; its chain was opened
\* once, is closed once by the implicit close, and both filters are freed.
C17_Witness ==
    /\ last.op = "free"
    /\ last.pre = ARCHIVE_STATE_DATA
    /\ n_filter_open = 1
    /\ n_filter_close = 1
    /\ Invoked("filter_close")
    /\ FreedNodes = <<1, 2>>

\* C17, the FATAL case reached: opened once, never closed, freed.
C17_WitnessFatal ==
    /\ last.op = "free"
    /\ last.pre = ARCHIVE_STATE_FATAL
    /\ n_filter_open = 1
    /\ n_filter_close = 0
    /\ FreedNodes = <<1, 2>>

\* C19: archive_write_open called in NEW leaves the state HEADER whatever it
\* returns; the backend's init hook is invoked only after the head filter's
\* open returned OK; after an open that failed, a write_header or close in
\* HEADER is accepted and reaches the backend.
C19_OpenAlwaysHeader ==
    /\ Ran("open") =>
         /\ last.pre = ARCHIVE_STATE_NEW
         /\ state = ARCHIVE_STATE_HEADER
         /\ Invoked("format_init") =>
              /\ "init" \in format
              /\ Invoked("filter_open") => Returned("filter_open") = ARCHIVE_OK
              /\ last.ret = Returned("format_init")
         /\ Invoked("filter_open") /\ Returned("filter_open") # ARCHIVE_OK =>
              /\ ~Invoked("format_init")
              /\ last.ret = Returned("filter_open")
         /\ open_failed = (last.ret # ARCHIVE_OK)
    /\ open_failed /\ last.pre = ARCHIVE_STATE_HEADER =>
         /\ last.op = "write_header" =>
              /\ last.err = ""
              /\ ~SkipHit => Invoked("format_write_header")
         /\ last.op = "close" =>
              /\ last.err = ""
              /\ HookNames = ClosePhases(last.pre)
              /\ state = ARCHIVE_STATE_CLOSED

\* C19 witness: the head filter's open failed, the state became HEADER all
\* the same, and the write_header that followed reached the backend.
C19_Witness ==
    /\ open_failed
    /\ Ran("write_header")
    /\ last.pre = ARCHIVE_STATE_HEADER
    /\ Invoked("format_write_header")

\* C19 witness of the open itself: Fatal from the filter's open, state HEADER.
C19_WitnessOpen ==
    /\ Ran("open")
    /\ Returned("filter_open") = ARCHIVE_FATAL
    /\ state = ARCHIVE_STATE_HEADER

\* ------------------------------------------------------ option dispatch
\* The latest call's options string, and what it met.
OptionString == last.arg.s
WellFormed(s) == \A p \in 1..Len(s) : ~s[p].bad
NoFatalAnswer == \A j \in 1..Len(last.hooks) : last.hooks[j].r # ARCHIVE_FATAL
\* The chain's nodes that have an options handler.
Eligible == {i \in 1..Len(filters) : "options" \in filters[i].hooks}
\* The invocations of node i's handler for the key at position p.
HandlerCalls(i, p) ==
    {j \in 1..Len(last.hooks) : last.hooks[j].node = i /\ last.hooks[j].key = p}

\* C13: set_compressor_options with a string of K pairs, on a chain where M
\* filters have an options handler, invokes the handler of each of the M
\* filters for each of the K pairs as long as no handler answers Fatal; the
\* filters without a handler are skipped.
C13_FilterOptionsReachEveryHandler ==
    (/\ Ran("set_compressor_options")
     /\ WellFormed(OptionString)
     /\ NoFatalAnswer)
    => /\ \A i \in Eligible : \A p \in 1..Len(OptionString) :
            Cardinality(HandlerCalls(i, p)) = 1
       /\ \A j \in 1..Len(last.hooks) : last.hooks[j].node \in Eligible

\* The statuses of the two sub-operations of the latest set_options.
SubStatuses == last.arg.subs

\* C14 as stated: set_options returns the status of a sub-operation that is
\* below Warn; otherwise Warn if either or both sub-operations returned Warn,
\* and OK only when both returned OK.
C14_WarnIfEitherWarned ==
    last.op = "set_options" =>
        LET r1 == SubStatuses[1]
        IN  IF r1 < ARCHIVE_WARN THEN last.ret = r1
            ELSE LET r2 == SubStatuses[2]
                 IN  IF r2 < ARCHIVE_WARN THEN last.ret = r2
                     ELSE IF r1 = ARCHIVE_WARN \/ r2 = ARCHIVE_WARN
                          THEN last.ret = ARCHIVE_WARN
                          ELSE last.ret = ARCHIVE_OK

\* C14, amended: set_options returns the status of a sub-operation that is
\* below Warn (the filter options are not tried when the format options gave
\* one); otherwise Warn only when both sub-operations returned Warn, and OK
\* when at most one of them did.
C14_WarnOnlyIfBothWarned ==
    last.op = "set_options" =>
        LET r1 == SubStatuses[1]
        IN  IF r1 < ARCHIVE_WARN
            THEN last.ret = r1 /\ Len(SubStatuses) = 1
            ELSE LET r2 == SubStatuses[2]
                 IN  IF r2 < ARCHIVE_WARN THEN last.ret = r2
                     ELSE IF r1 = ARCHIVE_WARN /\ r2 = ARCHIVE_WARN
                          THEN last.ret = ARCHIVE_WARN
                          ELSE last.ret = ARCHIVE_OK

\* set_options where only the format options warned: the result is OK.
C14_Witness ==
    /\ Ran("set_options")
    /\ SubStatuses = <<ARCHIVE_WARN, ARCHIVE_OK>>
    /\ last.ret = ARCHIVE_OK
    /\ Invoked("format_options") /\ Invoked("filter_options")

\* set_options where both warned.
C14_WitnessBoth ==
    /\ Ran("set_options")
    /\ SubStatuses = <<ARCHIVE_WARN, ARCHIVE_WARN>>
    /\ last.ret = ARCHIVE_WARN

\* The latest call is one of the two option setters and ran.
OptionSetter ==
    \/ Ran("set_format_options")
    \/ Ran("set_compressor_options")
\* The target of the latest option setter has an options handler.
HandlerBound ==
    IF last.op = "set_format_options" THEN "options" \in format
    ELSE Eligible # {}

\* A handler's Fatal ends the call with Fatal, nothing invoked after it.
FatalAborts ==
    /\ \A j \in 1..Len(last.hooks) :
           last.hooks[j].r = ARCHIVE_FATAL
               => j = Len(last.hooks) /\ last.ret = ARCHIVE_FATAL
    /\ last.ret = ARCHIVE_FATAL => ~NoFatalAnswer
\* A non-fatal rejection makes the result Warn, and the same handler is given
\* the next key of the string.
RejectionWarnsAndContinues ==
    \A j \in 1..Len(last.hooks) :
        LET h == last.hooks[j]
        IN  (h.r < ARCHIVE_OK /\ h.r # ARCHIVE_FATAL)
            => /\ NoFatalAnswer => last.ret = ARCHIVE_WARN
               /\ (h.key < Len(OptionString) /\ ~OptionString[h.key + 1].bad)
                  => /\ j < Len(last.hooks)
                     /\ last.hooks[j + 1].node = h.node
                     /\ last.hooks[j + 1].key = h.key + 1
EmptyIsOk ==
    OptionString = <<>> => last.ret = ARCHIVE_OK /\ last.hooks = <<>>

\* C15 as stated: in set_format_options and set_compressor_options a key
\* rejected with a non-fatal status makes the result Warn and the remaining
\* keys are still processed; a handler's Fatal returns Fatal at once with no
\* further invocation; a malformed string yields Warn; an empty or absent
\* string yields OK with no invocation.
C15_MalformedAlwaysWarns ==
    OptionSetter =>
        /\ FatalAborts
        /\ RejectionWarnsAndContinues
        /\ (~WellFormed(OptionString) /\ NoFatalAnswer)
               => last.ret = ARCHIVE_WARN
        /\ EmptyIsOk

\* C15, amended: as stated, except that a malformed string yields Warn only
\* when the target has an options handler (and no handler answered Fatal
\* before the malformed piece); when the backend has no options handler, or
\* no filter of the chain has one, the string is not parsed and the call
\* returns OK with no invocation.
C15_OptionDispatch ==
    OptionSetter =>
        /\ FatalAborts
        /\ RejectionWarnsAndContinues
        /\ (~WellFormed(OptionString) /\ NoFatalAnswer /\ HandlerBound)
               => last.ret = ARCHIVE_WARN
        /\ ~HandlerBound => last.ret = ARCHIVE_OK /\ last.hooks = <<>>
        /\ EmptyIsOk

\* set_format_options whose first key is rejected and whose second key is
\* still handed to the handler.
C15_Witness ==
    /\ Ran("set_format_options")
    /\ Len(OptionString) = 2
    /\ Len(last.hooks) = 2
    /\ last.hooks[1].r = ARCHIVE_FAILED
    /\ last.hooks[2].key = 2
    /\ last.ret = ARCHIVE_WARN

\* A malformed string given to a chain without any options handler.
C15_WitnessNoHandler ==
    /\ Ran("set_compressor_options")
    /\ ~WellFormed(OptionString)
    /\ ~HandlerBound
    /\ last.ret = ARCHIVE_OK

\* A handler answering Fatal for the first of two keys.
C15_WitnessFatal ==
    /\ Ran("set_compressor_options")
    /\ Len(OptionString) = 2
    /\ Len(last.hooks) = 1
    /\ last.ret = ARCHIVE_FATAL

\* ------------------------------------------------------ client write loop
\* The counts the writer accepted in the calls so far.
RECURSIVE Accepted(_)
Accepted(log) ==
    IF log = <<>> THEN 0
    ELSE (IF Head(log)[2] > 0 THEN Head(log)[2] ELSE 0) + Accepted(Tail(log))
\* Every value the writer returned is negative, zero, or a count between 1
\* and the bytes it was offered.
WithinOffered(log) == \A k \in 1..Len(log) : log[k][2] <= log[k][1]
\* The writer refused in its latest call.
Refused(log) == log # <<>> /\ log[Len(log)][2] <= 0

\* C18: for a buffer of L > 0 bytes and a writer returning a negative value,
\* zero, or a count within the bytes offered, archive_write_client_write
\* returns OK exactly when the accepted counts sum to L, returns Fatal when the
\* writer returned a negative value or zero, and returns nothing else.
C18_AllOrFatal ==
    (cw.pc = "done" /\ cw.L > 0 /\ WithinOffered(cw.log))
    => /\ cw.ret \in {ARCHIVE_OK, ARCHIVE_FATAL}
       /\ cw.ret = ARCHIVE_OK <=> Accepted(cw.log) = cw.L
       /\ Refused(cw.log) => cw.ret = ARCHIVE_FATAL

\* C20: with a writer that returns a positive count on every call, whether or
\* not within the bytes offered, the remaining length never wraps and the
\* writer is never offered more bytes than remain of the caller's buffer; the
\* call returns OK once the counts reach the buffer's length.
C20_LengthNeverWraps ==
    /\ (cw.pc = "loop")
       => /\ cw.buff <= cw.L
          /\ cw.length <= cw.L - cw.buff
    /\ (cw.pc = "done" /\ ~Refused(cw.log)) => cw.ret = ARCHIVE_OK
====
